---- MODULE Spec2Model ----
(***************************************************************************)
(* Model of the CLIP embedding service (src/embeddings/main.py).           *)
(*                                                                         *)
(* State: the three module globals (model, processor, device), the         *)
(* position of the lifespan context manager, the number of client          *)
(* requests that have arrived and wait for the event loop, and the         *)
(* position of the handler that the event loop is running (or ran last).   *)
(*                                                                         *)
(* The handlers are `async def` coroutines without a single await, so the  *)
(* event loop runs each of them to completion; the only thing that can     *)
(* happen while a handler is inside the blocking model call is that more   *)
(* requests arrive.  The lifespan start-up has no await before its yield   *)
(* either, so a handler can see its globals only before it ran, after it   *)
(* raised, or after it yielded.                                            *)
(*                                                                         *)
(* Payloads are strings over a three-letter alphabet: "," is the separator *)
(* of a data URL, "M" and "x" are base64 letters, each standing for one    *)
(* well-padded base64 quantum.  A byte string is an image when it starts   *)
(* with the magic quantum "M".                                             *)
(***************************************************************************)
EXTENDS Integers, Sequences, FiniteSets, TLC

VARIABLES model, processor, device, phase, waiting, req, dpayload, dresult

vars == <<model, processor, device, phase, waiting, req, dpayload, dresult>>

(* ---------------------------- bounds ---------------------------------- *)
MaxBatch == 2
MaxWaiting == 1
MaxLen == 4

(* ---------------------------- constants ------------------------------- *)
EmbeddingDim == 512
None == "None"
Separator == ","
Base64Letters == {"M", "x"}
Alphabet == {Separator} \cup Base64Letters
Devices == {"cpu", "cuda"}
ImageIds == {None, "a"}
ExceptionTypes == {"ValueError", "RuntimeError"}

(* Payloads sent to the HTTP handlers: a raw base64 image, a data URL     *)
(* carrying another image, and a payload whose bytes are not an image.    *)
Payloads == { <<"M">>, <<"x", ",", "M", "x">>, <<"x">> }

Strings(n) == UNION { [1..k -> Alphabet] : k \in 0..n }

(* ---------------------------- decode_image ---------------------------- *)
Contains(s, c) == \E i \in 1..Len(s) : s[i] = c

FirstIndex(s, c) == CHOOSE i \in 1..Len(s) : s[i] = c /\ \A j \in 1..(i-1) : s[j] # c

RECURSIVE split(_, _)
split(s, sep) ==
    IF ~Contains(s, sep) THEN <<s>>
    ELSE LET i == FirstIndex(s, sep)
         IN  <<SubSeq(s, 1, i-1)>> \o split(SubSeq(s, i+1, Len(s)), sep)

b64decode(s) == SelectSeq(s, LAMBDA c : c \in Base64Letters)

ImageOpen(bytes) ==
    IF Len(bytes) > 0 /\ bytes[1] = "M"
    THEN [ok |-> TRUE, image |-> bytes]
    ELSE [ok |-> FALSE, image |-> <<>>]

decode_image(image_base64) ==
    LET stripped == IF Contains(image_base64, Separator)
                    THEN split(image_base64, Separator)[2]
                    ELSE image_base64
    IN  ImageOpen(b64decode(stripped))

(* ---------------------------- generate_embedding ---------------------- *)
ModelNotLoadedOnlyModel == model = None

ModelNotLoaded == model = None \/ processor = None

Vector(image) == [src |-> image, n |-> EmbeddingDim]

len(embedding) == embedding.n

InferenceOutcomes == {"ok"} \cup ExceptionTypes

(* ---------------------------- responses ------------------------------- *)
EmbeddingResponseNoId(img_request, embedding) ==
    [image_id |-> None, embedding |-> embedding, dimension |-> len(embedding)]

EmbeddingResponse(img_request, embedding) ==
    [image_id |-> img_request.image_id, embedding |-> embedding,
     dimension |-> len(embedding)]

health_check_fixed_device ==
    [status |-> "healthy", model_loaded |-> model # None, device |-> "cpu"]

health_check ==
    [status |-> "healthy", model_loaded |-> model # None, device |-> device]

HandlerStatus(exc) == IF exc = "ValueError" THEN 400 ELSE 500

(* ---------------------------- requests -------------------------------- *)
EmbeddingRequests == [image_base64 : Payloads, image_id : ImageIds]

BatchRequests == UNION { [1..k -> EmbeddingRequests] : k \in 0..MaxBatch }

NoRequest == [kind |-> "none", pc |-> "done"]

NotCalled == [pc |-> "start"]

LoopIdle == req.pc = "done"

LoadCompleted == phase \in {"serving", "stopped"}

(* ---------------------------- lifespan -------------------------------- *)
Startup ==
    /\ phase = "unloaded"
    /\ LoopIdle
    /\ \E dev \in Devices, outcome \in {"ok", "model_fails", "processor_fails"} :
          /\ device' = dev
          /\ model' = IF outcome = "model_fails" THEN None ELSE "CLIPModel"
          /\ processor' = IF outcome = "ok" THEN "CLIPProcessor" ELSE None
          /\ phase' = IF outcome = "ok" THEN "serving" ELSE "failed"
    /\ UNCHANGED <<waiting, req, dpayload, dresult>>

Shutdown ==
    /\ phase = "serving"
    /\ LoopIdle
    /\ phase' = "stopped"
    /\ UNCHANGED <<model, processor, device, waiting, req, dpayload, dresult>>

(* ---------------------------- event loop ------------------------------ *)
Arrive ==
    /\ waiting < MaxWaiting
    /\ waiting' = waiting + 1
    /\ UNCHANGED <<model, processor, device, phase, req, dpayload, dresult>>

Dispatch ==
    /\ LoopIdle
    /\ waiting > 0
    /\ waiting' = waiting - 1

HealthCheck ==
    /\ Dispatch
    /\ req' = [kind |-> "health", pc |-> "done", at |-> phase,
               status |-> 200, body |-> health_check]
    /\ UNCHANGED <<model, processor, device, phase, dpayload, dresult>>

(* ---------------------------- POST /embed ----------------------------- *)
EmbedDone(request, status, cause, body) ==
    [kind |-> "embed", pc |-> "done", at |-> phase, request |-> request,
     status |-> status, cause |-> cause, body |-> body]

CreateEmbedding ==
    /\ Dispatch
    /\ \E request \in EmbeddingRequests :
          LET d == decode_image(request.image_base64)
          IN  req' = IF ~d.ok
                     THEN EmbedDone(request, HandlerStatus("ValueError"), "decode",
                                    [detail |-> "Failed to decode image"])
                     ELSE IF ModelNotLoaded
                     THEN EmbedDone(request, HandlerStatus("RuntimeError"), "not_ready",
                                    [detail |-> "Embedding generation failed"])
                     ELSE [kind |-> "embed", pc |-> "inference", at |-> phase,
                           request |-> request, image |-> d.image]
    /\ UNCHANGED <<model, processor, device, phase, dpayload, dresult>>

EmbedInference ==
    /\ req.kind = "embed"
    /\ req.pc = "inference"
    /\ \E outcome \in InferenceOutcomes :
          req' = IF outcome = "ok"
                 THEN EmbedDone(req.request, 200, "ok",
                                EmbeddingResponse(req.request, Vector(req.image)))
                 ELSE EmbedDone(req.request, HandlerStatus(outcome), "inference",
                                [detail |-> IF outcome = "ValueError"
                                            THEN "str(e)"
                                            ELSE "Embedding generation failed"])
    /\ UNCHANGED <<model, processor, device, phase, waiting, dpayload, dresult>>

(* ---------------------------- POST /embed/batch ----------------------- *)
BatchSkipPlaceholder(b, outcome) ==
    [b EXCEPT !.pc = "loop", !.i = b.i + 1,
              !.outcomes = Append(b.outcomes, outcome),
              !.results = Append(b.results,
                                 [image_id |-> b.request[b.i].image_id,
                                  embedding |-> [src |-> <<>>, n |-> 0],
                                  dimension |-> 0])]

BatchSkipAbort(b, outcome) ==
    [b EXCEPT !.pc = "done", !.status = 500,
              !.outcomes = Append(b.outcomes, outcome)]

BatchSkip(b, outcome) ==
    [b EXCEPT !.pc = "loop", !.i = b.i + 1,
              !.outcomes = Append(b.outcomes, outcome)]

BatchAppend(b, embedding) ==
    [b EXCEPT !.pc = "loop", !.i = b.i + 1,
              !.outcomes = Append(b.outcomes, "ok"),
              !.results = Append(b.results,
                                 EmbeddingResponse(b.request[b.i], embedding))]

BatchBegin ==
    /\ Dispatch
    /\ \E request \in BatchRequests :
          req' = [kind |-> "batch", pc |-> "loop", at |-> phase, request |-> request,
                  i |-> 1, results |-> <<>>, outcomes |-> <<>>, image |-> <<>>,
                  status |-> 0]
    /\ UNCHANGED <<model, processor, device, phase, dpayload, dresult>>

BatchDecode ==
    /\ req.kind = "batch"
    /\ req.pc = "loop"
    /\ req.i <= Len(req.request)
    /\ LET d == decode_image(req.request[req.i].image_base64)
       IN  req' = IF ~d.ok THEN BatchSkip(req, "decode")
                  ELSE IF ModelNotLoaded THEN BatchSkip(req, "not_ready")
                  ELSE [req EXCEPT !.pc = "inference", !.image = d.image]
    /\ UNCHANGED <<model, processor, device, phase, waiting, dpayload, dresult>>

BatchInference ==
    /\ req.kind = "batch"
    /\ req.pc = "inference"
    /\ \E outcome \in InferenceOutcomes :
          req' = IF outcome = "ok"
                 THEN [BatchAppend(req, Vector(req.image)) EXCEPT !.image = <<>>]
                 ELSE [BatchSkip(req, outcome) EXCEPT !.image = <<>>]
    /\ UNCHANGED <<model, processor, device, phase, waiting, dpayload, dresult>>

BatchReturn ==
    /\ req.kind = "batch"
    /\ req.pc = "loop"
    /\ req.i > Len(req.request)
    /\ req' = [req EXCEPT !.pc = "done", !.status = 200]
    /\ UNCHANGED <<model, processor, device, phase, waiting, dpayload, dresult>>

(* ---------------------------- the service ----------------------------- *)
Init ==
    /\ model = None
    /\ processor = None
    /\ device = "cpu"
    /\ phase = "unloaded"
    /\ waiting = 0
    /\ req = NoRequest
    /\ dpayload = <<>>
    /\ dresult = NotCalled

Next ==
    \/ Startup
    \/ Shutdown
    \/ Arrive
    \/ HealthCheck
    \/ CreateEmbedding
    \/ EmbedInference
    \/ BatchBegin
    \/ BatchDecode
    \/ BatchInference
    \/ BatchReturn

Spec == Init /\ [][Next]_vars

(* ---------------------------- decode_image alone ---------------------- *)
InitDecode ==
    /\ model = None
    /\ processor = None
    /\ device = "cpu"
    /\ phase = "unloaded"
    /\ waiting = 0
    /\ req = NoRequest
    /\ dpayload \in Strings(MaxLen)
    /\ dresult = NotCalled

DecodeCall ==
    /\ dresult.pc = "start"
    /\ dresult' = [pc |-> "done", value |-> decode_image(dpayload)]
    /\ UNCHANGED <<model, processor, device, phase, waiting, req, dpayload>>

NextDecode == DecodeCall

SpecDecode == InitDecode /\ [][NextDecode]_vars

(* ====================================================================== *)
(* Properties                                                             *)
(* ====================================================================== *)
HealthDone == req.kind = "health"
EmbedFinished == req.kind = "embed" /\ req.pc = "done"
BatchFinished == req.kind = "batch" /\ req.pc = "done"
InInference == req.kind \in {"embed", "batch"} /\ req.pc = "inference"
RanAfterLoad == req.at \in {"serving", "stopped"}

Failures(outcomes) == {i \in 1..Len(outcomes) : outcomes[i] # "ok"}

OkPositions(outcomes) ==
    SelectSeq([i \in 1..Len(outcomes) |-> i], LAMBDA i : outcomes[i] = "ok")

RECURSIVE ExpectedResults(_, _)
ExpectedResults(request, outcomes) ==
    IF request = <<>> \/ outcomes = <<>> THEN <<>>
    ELSE LET rest == ExpectedResults(Tail(request), Tail(outcomes))
             item == Head(request)
         IN  IF Head(outcomes) = "ok"
             THEN <<[image_id |-> item.image_id,
                     embedding |-> [src |-> decode_image(item.image_base64).image,
                                    n |-> EmbeddingDim],
                     dimension |-> EmbeddingDim]>> \o rest
             ELSE rest

(* C1: the result of a finished batch is exactly the sequence of the      *)
(* items whose decode and embedding both succeeded, in input order, each  *)
(* once and without placeholders; a batch of N items with exactly one     *)
(* failed item returns N-1 results.                                       *)
C1_BatchIsSuccessfulSubsequence ==
    BatchFinished =>
        /\ req.results = ExpectedResults(req.request, req.outcomes)
        /\ Len(req.results) = Len(req.request) - Cardinality(Failures(req.outcomes))
        /\ (Cardinality(Failures(req.outcomes)) = 1
                => Len(req.results) = Len(req.request) - 1)

C1_Witness ==
    /\ BatchFinished
    /\ Len(req.request) = 2
    /\ req.outcomes = <<"decode", "ok">>
    /\ Len(req.results) = 1
    /\ req.results[1].image_id = req.request[2].image_id

(* C2: POST /embed answers 400 exactly when the payload failed to decode  *)
(* and 500 for every other failure (model not loaded, or any exception    *)
(* raised by preprocessing or inference).                                 *)
C2_StatusByCause ==
    (EmbedFinished /\ req.cause # "ok") =>
        /\ (req.status = 400 <=> req.cause = "decode")
        /\ (req.cause \in {"not_ready", "inference"} => req.status = 500)

(* C3: a handler that runs before the load has completed never reaches    *)
(* the model call and never returns a vector: generate_embedding raises   *)
(* the model-not-loaded error for every decoded image.                    *)
C3_NoEmbeddingBeforeLoad ==
    (req.kind \in {"embed", "batch"} /\ ~RanAfterLoad) =>
        /\ req.pc # "inference"
        /\ (EmbedFinished =>
               /\ req.status # 200
               /\ req.cause \in {"decode", "not_ready"}
               /\ (decode_image(req.request.image_base64).ok
                       => req.cause = "not_ready" /\ req.status = 500))
        /\ (req.kind = "batch" =>
               /\ req.results = <<>>
               /\ \A i \in 1..Len(req.outcomes) :
                     /\ req.outcomes[i] \in {"decode", "not_ready"}
                     /\ (decode_image(req.request[i].image_base64).ok
                             => req.outcomes[i] = "not_ready"))

C3_Witness ==
    /\ EmbedFinished
    /\ req.at = "failed"
    /\ model # None
    /\ processor = None
    /\ req.cause = "not_ready"

(* C4: /health reports model_loaded false whenever it runs before the     *)
(* load has completed, true with a recognised device whenever it runs     *)
(* after, and model_loaded true implies generate_embedding is ready.      *)
C4_HealthTracksLoad ==
    HealthDone =>
        /\ (req.body.model_loaded <=> RanAfterLoad)
        /\ req.body.device \in Devices
        /\ (req.body.model_loaded => ~ModelNotLoaded)

(* C5: a batch never aborts on a per-item failure: every item is          *)
(* attempted, the answer is 200, the result is no longer than the         *)
(* request, and a batch whose items all fail returns the empty list.      *)
C5_BatchNeverAborts ==
    /\ (req.kind = "batch" => req.status \in {0, 200})
    /\ (BatchFinished =>
           /\ req.status = 200
           /\ Len(req.outcomes) = Len(req.request)
           /\ Len(req.results) <= Len(req.request)
           /\ (Cardinality(Failures(req.outcomes)) = Len(req.request)
                   => req.results = <<>>)
           /\ (~RanAfterLoad => req.results = <<>>))

C5_Witness ==
    /\ BatchFinished
    /\ req.status = 200
    /\ req.outcomes = <<"decode", "ValueError">>
    /\ req.results = <<>>

(* C6: decode_image decodes everything after the first separator (later   *)
(* separators included), so header + "," + data decodes like data alone,  *)
(* and a payload without separator is decoded whole.                      *)
AfterFirstSeparator(s) ==
    IF Contains(s, Separator)
    THEN SubSeq(s, FirstIndex(s, Separator) + 1, Len(s))
    ELSE s

C6_DecodesWholeRemainder ==
    dresult.pc = "done" =>
        /\ dresult.value = ImageOpen(b64decode(AfterFirstSeparator(dpayload)))
        /\ (Contains(dpayload, Separator)
                => dresult.value = decode_image(AfterFirstSeparator(dpayload)))

(* C7: model, processor and device are written only by the start-up load  *)
(* and at most once; no handler step changes them, and every /health      *)
(* answer carries the current device, which after the load is the device  *)
(* chosen at load time.                                                   *)
C7_HandleWrittenOnlyByLoad ==
    [][ /\ (<<model, processor, device>>' # <<model, processor, device>>
               => phase = "unloaded" /\ phase' # "unloaded")
        /\ (phase' = "unloaded" => phase = "unloaded")
        /\ ((req' # req /\ req'.kind = "health")
               => req'.body.device = device /\ device' = device) ]_vars

C7_Witness ==
    /\ HealthDone
    /\ req.at = "serving"
    /\ req.body.device = "cuda"
    /\ device = "cuda"
    /\ phase = "stopped"

(* C8: while a call is inside its blocking inference, a request that has  *)
(* arrived can be handled to completion before the inference finishes.    *)
C8_InferenceDoesNotStall ==
    (InInference /\ waiting > 0) => ENABLED HealthCheck

(* C9: every successful result has dimension = len(embedding) = 512 and   *)
(* carries the image_id of the very request item it was computed from.    *)
WellFormedResult(result, item) ==
    /\ result.dimension = EmbeddingDim
    /\ len(result.embedding) = EmbeddingDim
    /\ result.image_id = item.image_id
    /\ result.embedding.src = decode_image(item.image_base64).image

C9_ResultShape ==
    /\ (EmbedFinished /\ req.status = 200 => WellFormedResult(req.body, req.request))
    /\ (req.kind = "batch" =>
           LET ok == OkPositions(req.outcomes)
           IN  /\ Len(req.results) = Len(ok)
               /\ \A j \in 1..Len(ok) :
                     WellFormedResult(req.results[j], req.request[ok[j]]))

C9_Witness ==
    /\ BatchFinished
    /\ Len(req.results) = 2
    /\ req.results[1].image_id = "a"
    /\ req.results[2].image_id = None
    /\ req.results[1].dimension = EmbeddingDim

(* C10: after the shutdown phase of lifespan the process holds neither    *)
(* model nor processor, and the handle is never dropped before that.      *)
C10_TeardownReleases ==
    /\ (phase = "stopped" => model = None /\ processor = None)
    /\ (phase = "serving" => model # None /\ processor # None)

====
